---- MODULE Spec2Model ----
(***************************************************************************)
(* CourtVision event-detection pipeline: ViolationDetector,               *)
(* PassAndInterceptionDetector, ShotDetector, HoopDetector and           *)
(* EventCollector.                                                        *)
(*                                                                         *)
(* Every detector is a loop over the frame index; one action models one   *)
(* iteration of such a loop (or one whole collector call).  Each detector *)
(* has its own specification over the shared variables below.             *)
(*                                                                         *)
(* Conventions                                                             *)
(*  - Python None and the empty bbox [] are both the empty tuple <<>>.    *)
(*  - A bbox is <<x1, y1, x2, y2>>.  A center is kept DOUBLED,            *)
(*    <<x1 + x2, y1 + y2>>, so that the halves of (x1 + x2) / 2 stay      *)
(*    exact; every distance threshold T of the code is compared as        *)
(*    (2T)^2 against the squared distance of the doubled centers.         *)
(*  - Python lists are sequences, so list index i is sequence index i+1.  *)
(***************************************************************************)
EXTENDS Integers, Sequences, FiniteSets, TLC

VARIABLES
    pc,                     \* position of the running call
    frame_num,              \* number of loop iterations completed = next frame index
    ball_pos_history,       \* the running detector's local list of ball centers
    ball_bbox,              \* loop local: the ball bbox of the last iteration
    player_states,          \* ViolationDetector.player_states (a defaultdict)
    fps,                    \* ViolationDetector.fps
    total_travels,
    total_double_dribbles,
    player_with_ball,       \* loop locals of the last iteration of detect_violations
    player_bbox,
    travels,                \* output of detect_violations, argument of collect_violations
    double_dribbles,
    args,                   \* the per-frame inputs handed to the first call (rerun)
    first_result,           \* what the first call returned (rerun)
    events,                 \* EventCollector.events
    raised,                 \* TRUE when the call ended with an exception
    ball_aquisition,        \* argument: the holder of every frame, -1 for none
    player_assignment,      \* argument: per frame, track id -> team
    shot_attempts,          \* argument of detect_interceptions: per frame, a flag
    passes,                 \* output of detect_passes
    interceptions,          \* output of detect_interceptions
    shots,                  \* output of detect_shots
    hoop_bbox,              \* loop local of detect_shots: the hoop bbox of the frame
    frames,                 \* argument of detect_frames: per frame, what each strategy finds
    model,                  \* HoopDetector.model: TRUE when the YOLO weights were loaded
    hoop_positions,         \* the list detect_frames builds and returns
    detection_stats         \* local of detect_frames: frames matched per strategy

loopVars == <<frame_num, ball_pos_history, ball_bbox>>
violationVars == <<player_states, fps, total_travels, total_double_dribbles,
                   player_with_ball, player_bbox>>
countVars == <<travels, double_dribbles>>
rerunVars == <<args, first_result>>
collectorVars == <<events, raised>>
inputVars == <<ball_aquisition, player_assignment, shot_attempts>>
passVars == <<passes, interceptions>>
shotVars == <<shots, hoop_bbox>>
hoopVars == <<frames, model, hoop_positions, detection_stats>>

vars == <<pc, loopVars, violationVars, countVars, rerunVars, collectorVars,
          inputVars, passVars, shotVars, hoopVars>>

---------------------------------------------------------------------------
(* Bounds of the model *)

MaxFrames == 4
MaxRerunFrames == 3
MaxLen == 2
MaxEvents == 2
MaxPassFrames == 3
MaxReboundFrames == 26
MaxShotFrames == 6
MaxPossessionFrames == 5
MaxHoldFrames == 4
MaxRiseFrames == 7
MaxHoopFrames == 3
Fps == 6

(* Program constants *)

travel_threshold == 30
hold_duration_hundredths == 35
hold_stationary_threshold == 8
dribble_start_stability_threshold == 5
shot_window == 24
trajectory_frames == 5
min_trajectory_points == 3
min_direction_norm == 2
projection_factor == 5

None == <<>>
NoHolder == 0 - 1
Tracks == {1, 2}
Teams == {1, 2}

(* The inputs a frame can carry *)
BallBoxes == {<<>>, <<0, 0, 4, 4>>, <<0, 6, 4, 10>>, <<0, 12, 4, 16>>}
PlayerBoxes == {<<>>, <<0, 0, 10, 20>>, <<40, 0, 50, 20>>}

Zeros(n) == [i \in 1..n |-> 0]

(* The values of the variables a specification does not use. *)
LoopIdle == frame_num = 0 /\ ball_pos_history = <<>> /\ ball_bbox = <<>>
ViolationIdle ==
    /\ player_states = <<>>
    /\ fps = Fps
    /\ total_travels = 0
    /\ total_double_dribbles = 0
    /\ player_with_ball = NoHolder
    /\ player_bbox = <<>>
CountIdle == travels = <<>> /\ double_dribbles = <<>>
RerunIdle == args = <<>> /\ first_result = <<>>
CollectorIdle == events = <<>> /\ raised = FALSE
InputIdle == ball_aquisition = <<>> /\ player_assignment = <<>> /\ shot_attempts = <<>>
PassIdle == passes = <<>> /\ interceptions = <<>>
ShotIdle == shots = <<>> /\ hoop_bbox = <<>>
HoopIdle ==
    /\ frames = <<>>
    /\ model = FALSE
    /\ hoop_positions = <<>>
    /\ detection_stats = <<>>

Sq(x) == x * x
Abs(x) == IF x < 0 THEN 0 - x ELSE x
Dist2(p, q) == Sq(p[1] - q[1]) + Sq(p[2] - q[2])

---------------------------------------------------------------------------
(* ViolationDetector *)

DefaultState ==
    [action |-> "no_ball", dribble_stopped |-> FALSE, last_pos |-> None,
     violation_committed |-> FALSE]

hold_history_len == (hold_duration_hundredths * fps) \div 100

_get_ball_center(bbox) ==
    IF bbox # <<>> THEN <<bbox[1] + bbox[3], bbox[2] + bbox[4]>> ELSE None

_get_player_center(bbox) ==
    IF bbox # <<>> THEN <<bbox[1] + bbox[3], bbox[2] + bbox[4]>> ELSE None

LastN(s, n) == SubSeq(s, Len(s) - n + 1, Len(s))

NotNone(s) == SelectSeq(s, LAMBDA p : p # None)

_is_holding(history) ==
    IF Len(history) < hold_history_len THEN FALSE
    ELSE LET recent_pos == NotNone(LastN(history, hold_history_len))
         IN  IF Len(recent_pos) < hold_history_len THEN FALSE
             ELSE \A i \in 1..Len(recent_pos) :
                     Dist2(recent_pos[i], recent_pos[1])
                         < Sq(2 * hold_stationary_threshold)

_is_starting_dribble(history) ==
    IF Len(history) < 4 THEN FALSE
    ELSE LET w == LastN(history, 4)
             p1 == w[1]
             p2 == w[2]
             p3 == w[3]
             p4 == w[4]
         IN  IF \E i \in 1..4 : w[i] = None THEN FALSE
             ELSE LET is_stable_before ==
                          Abs(p2[2] - p1[2]) < 2 * dribble_start_stability_threshold
                      is_moving_down ==
                          p4[2] > p3[2] + 2 /\ p3[2] > p2[2] + 2
                  IN  is_stable_before /\ is_moving_down

ResetOthers_KeepFlag(ps, holder) ==
    [id \in DOMAIN ps |->
        IF id # holder
        THEN [action |-> "no_ball",
              dribble_stopped |->
                  IF ps[id].action # "no_ball" THEN TRUE ELSE ps[id].dribble_stopped,
              last_pos |-> None,
              violation_committed |-> ps[id].violation_committed]
        ELSE ps[id]]

(* Lines 72-78: every known track other than the holder is reset. *)
ResetOthers(ps, holder) ==
    [id \in DOMAIN ps |->
        IF id # holder
        THEN [action |-> "no_ball",
              dribble_stopped |->
                  IF ps[id].action # "no_ball" THEN TRUE ELSE ps[id].dribble_stopped,
              last_pos |-> None,
              violation_committed |-> FALSE]
        ELSE ps[id]]

Lookup_Fresh(ps, holder) ==
    [id \in DOMAIN ps \cup {holder} |-> IF id = holder THEN DefaultState ELSE ps[id]]

(* Line 81: reading the defaultdict creates the holder's entry. *)
Lookup(ps, holder) ==
    IF holder \in DOMAIN ps THEN ps ELSE ps @@ (holder :> DefaultState)

(* Lines 88-91. *)
DoubleDribbleNow_IgnoreFlag(state, history) ==
    _is_starting_dribble(history) /\ state.dribble_stopped

(* Line 88. *)
DoubleDribbleNow(state, history) ==
    _is_starting_dribble(history) /\ state.dribble_stopped
        /\ ~state.violation_committed

AfterDoubleDribble(state, history) ==
    IF DoubleDribbleNow(state, history)
    THEN [state EXCEPT !.violation_committed = TRUE, !.dribble_stopped = FALSE]
    ELSE state

(* Lines 93-100. *)
AfterHoldCheck(state, history, player_pos) ==
    IF _is_holding(history)
    THEN IF state.action # "holding"
         THEN [state EXCEPT !.dribble_stopped = TRUE, !.last_pos = player_pos,
                            !.action = "holding"]
         ELSE state
    ELSE [state EXCEPT !.action = "transient", !.last_pos = None]

TravelNow_IgnoreFlag(state, player_pos) ==
    /\ state.action = "holding"
    /\ state.last_pos # None
    /\ Dist2(player_pos, state.last_pos) > Sq(2 * travel_threshold)

(* Lines 103-105. *)
TravelNow(state, player_pos) ==
    /\ state.action = "holding"
    /\ state.last_pos # None
    /\ ~state.violation_committed
    /\ Dist2(player_pos, state.last_pos) > Sq(2 * travel_threshold)

(* Lines 106-108. *)
AfterTravel(state, player_pos) ==
    IF TravelNow(state, player_pos)
    THEN [state EXCEPT !.violation_committed = TRUE, !.last_pos = player_pos]
    ELSE state

(* One iteration of the loop of detect_violations (lines 66-111) on the    *)
(* frame inputs bb (ball bbox), pwb (holder), pb (the holder's bbox).      *)
DetectViolationsFrame(bb, pwb, pb) ==
    /\ frame_num < Len(travels)
    /\ frame_num' = frame_num + 1
    /\ ball_bbox' = bb
    /\ player_with_ball' = pwb
    /\ player_bbox' = pb
    /\ fps' = fps
    /\ ball_pos_history' = Append(ball_pos_history, _get_ball_center(bb))
    /\ LET history == Append(ball_pos_history, _get_ball_center(bb))
           ps1 == ResetOthers(player_states, pwb)
           ps2 == Lookup(ps1, pwb)
           player_pos == _get_player_center(pb)
       IN  IF pwb = NoHolder
           THEN /\ player_states' = ps1
                /\ UNCHANGED <<total_travels, total_double_dribbles>>
                /\ travels' = [travels EXCEPT ![frame_num + 1] = total_travels]
                /\ double_dribbles' =
                       [double_dribbles EXCEPT ![frame_num + 1] = total_double_dribbles]
           ELSE IF player_pos = None
           THEN \* line 83: continue, lines 110-111 are skipped
                /\ player_states' = ps2
                /\ UNCHANGED <<total_travels, total_double_dribbles, travels,
                               double_dribbles>>
           ELSE LET s0 == ps2[pwb]
                    s1 == AfterDoubleDribble(s0, history)
                    s2 == AfterHoldCheck(s1, history, player_pos)
                    s3 == AfterTravel(s2, player_pos)
                    tt == total_travels
                              + (IF TravelNow(s2, player_pos) THEN 1 ELSE 0)
                    td == total_double_dribbles
                              + (IF DoubleDribbleNow(s0, history) THEN 1 ELSE 0)
                IN  /\ player_states' = [ps2 EXCEPT ![pwb] = s3]
                    /\ total_travels' = tt
                    /\ total_double_dribbles' = td
                    /\ travels' = [travels EXCEPT ![frame_num + 1] = tt]
                    /\ double_dribbles' = [double_dribbles EXCEPT ![frame_num + 1] = td]

(* The frame inputs: the holder is no track or a track, whose bbox is      *)
(* present or missing.  Entries of player_tracks[frame] for tracks other   *)
(* than the holder are never read (line 82) and are not drawn.             *)
ViolationFrame ==
    /\ pc = "run"
    /\ \E bb \in BallBoxes, pwb \in Tracks \cup {NoHolder} :
          \E pb \in (IF pwb = NoHolder THEN {<<>>} ELSE PlayerBoxes) :
              DetectViolationsFrame(bb, pwb, pb)
    /\ UNCHANGED <<pc, rerunVars, collectorVars, inputVars, passVars, shotVars,
                   hoopVars>>

(* Line 114: the loop is over, the arrays are returned. *)
ViolationReturn ==
    /\ pc = "run"
    /\ frame_num = Len(travels)
    /\ pc' = "done"
    /\ UNCHANGED <<loopVars, violationVars, countVars, rerunVars, collectorVars,
                   inputVars, passVars, shotVars, hoopVars>>

(* A fresh ViolationDetector (lines 24-32) entering detect_violations      *)
(* (lines 61-64) on a video of num_frames frames.                          *)
ViolationInit ==
    /\ pc = "run"
    /\ LoopIdle
    /\ ViolationIdle
    /\ \E num_frames \in 0..MaxFrames :
          /\ travels = Zeros(num_frames)
          /\ double_dribbles = Zeros(num_frames)
    /\ RerunIdle
    /\ CollectorIdle
    /\ InputIdle
    /\ PassIdle
    /\ ShotIdle
    /\ HoopIdle

ViolationNext == ViolationFrame \/ ViolationReturn

SpecViolation == ViolationInit /\ [][ViolationNext]_vars

---------------------------------------------------------------------------
(* C1: the arrays detect_violations returns are cumulative counters:       *)
(* travels[f] >= travels[f-1] and double_dribbles[f] >= double_dribbles[f-1] *)
(* for every frame f >= 1, frames whose holder has no bbox included.       *)
C1_MonotonicCounters ==
    pc = "done" =>
        \A f \in 2..Len(travels) :
            /\ travels[f] >= travels[f - 1]
            /\ double_dribbles[f] >= double_dribbles[f - 1]

---------------------------------------------------------------------------
(* Two calls of detect_violations on one ViolationDetector with the same   *)
(* arguments.  player_states is set in __init__ only (lines 24-26), so the *)
(* second call starts from what the first one left there.                  *)

FirstCallFrame ==
    /\ pc = "run"
    /\ \E bb \in BallBoxes, pwb \in Tracks \cup {NoHolder} :
          \E pb \in (IF pwb = NoHolder THEN {<<>>} ELSE PlayerBoxes) :
              /\ DetectViolationsFrame(bb, pwb, pb)
              /\ args' = Append(args, <<bb, pwb, pb>>)
    /\ UNCHANGED <<pc, first_result, collectorVars, inputVars, passVars, shotVars,
                   hoopVars>>

FirstCallReturn ==
    /\ pc = "run"
    /\ frame_num = Len(travels)
    /\ pc' = "returned"
    /\ first_result' = <<travels, double_dribbles>>
    /\ UNCHANGED <<loopVars, violationVars, countVars, args, collectorVars,
                   inputVars, passVars, shotVars, hoopVars>>

(* Lines 61-64 of the second call: the locals are fresh, player_states is not. *)
SecondCallEnter ==
    /\ pc = "returned"
    /\ pc' = "rerun"
    /\ frame_num' = 0
    /\ ball_pos_history' = <<>>
    /\ total_travels' = 0
    /\ total_double_dribbles' = 0
    /\ travels' = Zeros(Len(args))
    /\ double_dribbles' = Zeros(Len(args))
    /\ UNCHANGED <<player_states, fps, ball_bbox, player_with_ball, player_bbox,
                   rerunVars, collectorVars, inputVars, passVars, shotVars,
                   hoopVars>>

SecondCallFrame ==
    /\ pc = "rerun"
    /\ frame_num < Len(args)
    /\ DetectViolationsFrame(args[frame_num + 1][1], args[frame_num + 1][2],
                             args[frame_num + 1][3])
    /\ UNCHANGED <<pc, rerunVars, collectorVars, inputVars, passVars, shotVars,
                   hoopVars>>

SecondCallReturn ==
    /\ pc = "rerun"
    /\ frame_num = Len(travels)
    /\ pc' = "done"
    /\ UNCHANGED <<loopVars, violationVars, countVars, rerunVars, collectorVars,
                   inputVars, passVars, shotVars, hoopVars>>

RerunInit ==
    /\ pc = "run"
    /\ LoopIdle
    /\ ViolationIdle
    /\ \E num_frames \in 0..MaxRerunFrames :
          /\ travels = Zeros(num_frames)
          /\ double_dribbles = Zeros(num_frames)
    /\ RerunIdle
    /\ CollectorIdle
    /\ InputIdle
    /\ PassIdle
    /\ ShotIdle
    /\ HoopIdle

RerunNext ==
    \/ FirstCallFrame
    \/ FirstCallReturn
    \/ SecondCallEnter
    \/ SecondCallFrame
    \/ SecondCallReturn

SpecRerun == RerunInit /\ [][RerunNext]_vars

(* C10: a second call of detect_violations on the same instance with the   *)
(* same arguments returns the same travels and double_dribbles arrays as   *)
(* the first call did.                                                     *)
C10_SecondCallSameResult ==
    pc = "done" => <<travels, double_dribbles>> = first_result

---------------------------------------------------------------------------
(* One possession: detect_violations on a video in which one track holds   *)
(* the ball on every frame (its bbox may be missing on some).              *)

PossessionFrame ==
    /\ pc = "run"
    /\ \E bb \in BallBoxes, pb \in PlayerBoxes : DetectViolationsFrame(bb, 1, pb)
    /\ UNCHANGED <<pc, rerunVars, collectorVars, inputVars, passVars, shotVars,
                   hoopVars>>

PossessionReturn ==
    /\ pc = "run"
    /\ frame_num = Len(travels)
    /\ pc' = "done"
    /\ UNCHANGED <<loopVars, violationVars, countVars, rerunVars, collectorVars,
                   inputVars, passVars, shotVars, hoopVars>>

PossessionInit ==
    /\ pc = "run"
    /\ LoopIdle
    /\ ViolationIdle
    /\ \E num_frames \in 0..MaxPossessionFrames :
          /\ travels = Zeros(num_frames)
          /\ double_dribbles = Zeros(num_frames)
    /\ RerunIdle
    /\ CollectorIdle
    /\ InputIdle
    /\ PassIdle
    /\ ShotIdle
    /\ HoopIdle

PossessionNext == PossessionFrame \/ PossessionReturn

SpecPossession == PossessionInit /\ [][PossessionNext]_vars

(* The PlayerState of a track as the defaultdict would give it. *)
StateOf(ps, track) == IF track \in DOMAIN ps THEN ps[track] ELSE DefaultState

(* A step is one iteration of the frame loop. *)
FrameStep == pc = "run" /\ frame_num' = frame_num + 1

(* C16: when the holder has committed a violation, went transient and,     *)
(* still holding the ball, enters holding again, its violation flag is     *)
(* cleared on that frame.                                                  *)
C16_FlagClearedOnNewHold ==
    [][(/\ FrameStep
        /\ player_with_ball # NoHolder
        /\ player_with_ball' = player_with_ball
        /\ StateOf(player_states, player_with_ball).action = "transient"
        /\ StateOf(player_states, player_with_ball).violation_committed
        /\ StateOf(player_states', player_with_ball).action = "holding")
       => ~StateOf(player_states', player_with_ball).violation_committed]_vars

(* C17: after every processed frame, every known track other than the     *)
(* frame's holder has action no_ball, no anchor and a cleared violation    *)
(* flag; so at most one track is holding or transient, and it is the       *)
(* frame's holder.                                                         *)
C17_OthersReset ==
    frame_num >= 1 =>
        /\ \A id \in DOMAIN player_states :
              id # player_with_ball =>
                  /\ player_states[id].action = "no_ball"
                  /\ player_states[id].last_pos = None
                  /\ ~player_states[id].violation_committed
        /\ Cardinality({id \in DOMAIN player_states :
                           player_states[id].action \in {"holding", "transient"}}) <= 1
        /\ \A id \in DOMAIN player_states :
              player_states[id].action \in {"holding", "transient"}
                  => id = player_with_ball

(* Witness of C17: a track that travelled has lost the ball to another     *)
(* track, which is holding.                                                *)
C17_Witness ==
    /\ total_travels >= 1
    /\ player_with_ball # NoHolder
    /\ StateOf(player_states, player_with_ball).action = "holding"
    /\ ~StateOf(player_states, player_with_ball).violation_committed
    /\ \E id \in DOMAIN player_states :
          id # player_with_ball /\ player_states[id].dribble_stopped

(* C18: on a frame whose holder has no bbox, the holder's PlayerState is   *)
(* left as it was, no travel and no double dribble is counted, no error is *)
(* raised and the loop goes on to the next frame.                          *)
C18_MissingBboxSkipsFrame ==
    [][(/\ FrameStep
        /\ player_with_ball' # NoHolder
        /\ player_bbox' = None)
       => /\ StateOf(player_states', player_with_ball')
                = StateOf(player_states, player_with_ball')
          /\ total_travels' = total_travels
          /\ total_double_dribbles' = total_double_dribbles
          /\ ~raised'
          /\ pc' = "run"]_vars

(* Witness of C18: the loop has passed a frame on which the holder, in     *)
(* holding after a travel, had no bbox.                                    *)
C18_Witness ==
    /\ frame_num >= 1
    /\ player_with_ball # NoHolder
    /\ player_bbox = None
    /\ StateOf(player_states, player_with_ball).action = "holding"
    /\ StateOf(player_states, player_with_ball).violation_committed
    /\ total_travels >= 1

(* The holder of the frame a step processes, its PlayerState before and    *)
(* after the frame, and its center on the frame.                           *)
HolderBefore == StateOf(player_states, player_with_ball')
HolderAfter == StateOf(player_states', player_with_ball')
HolderCenter == _get_player_center(player_bbox')
TravelCounted == total_travels' # total_travels
DoubleDribbleCounted == total_double_dribbles' # total_double_dribbles

(* C19: a travel is counted on a frame only if the holder is in holding,   *)
(* no violation was committed so far in the episode, and the holder's      *)
(* center is more than travel_threshold away from the anchor taken when    *)
(* holding was entered; counting it moves the anchor to the center and     *)
(* sets the violation flag.  The anchor is the holder's center of the      *)
(* frame holding is entered and stays until a travel moves it; no travel   *)
(* is counted on the frame holding is entered; once the flag is set it     *)
(* stays for the rest of the episode, so an episode counts one travel at   *)
(* most.                                                                   *)
C19_TravelOnlyWhileHolding ==
    [][FrameStep =>
        /\ TravelCounted =>
              /\ total_travels' = total_travels + 1
              /\ player_with_ball' # NoHolder
              /\ HolderCenter # None
              /\ HolderBefore.action = "holding"
              /\ HolderAfter.action = "holding"
              /\ ~HolderBefore.violation_committed
              /\ ~DoubleDribbleCounted
              /\ HolderBefore.last_pos # None
              /\ Dist2(HolderCenter, HolderBefore.last_pos) > Sq(2 * travel_threshold)
              /\ HolderAfter.last_pos = HolderCenter
              /\ HolderAfter.violation_committed
        /\ (player_with_ball' # NoHolder
                /\ HolderBefore.action # "holding" /\ HolderAfter.action = "holding")
              => /\ HolderAfter.last_pos = HolderCenter
                 /\ ~TravelCounted
        /\ (player_with_ball' # NoHolder
                /\ HolderBefore.action = "holding" /\ HolderAfter.action = "holding")
              => /\ ~TravelCounted => HolderAfter.last_pos = HolderBefore.last_pos
                 /\ HolderBefore.violation_committed
                       => HolderAfter.violation_committed /\ ~TravelCounted]_vars

(* Witness of C19: a travel was counted on the last frame processed; the   *)
(* holder is in holding with the flag set and the anchor on its center.    *)
C19_Witness ==
    /\ frame_num >= 3
    /\ player_with_ball # NoHolder
    /\ total_travels = 1
    /\ travels[frame_num] = 1
    /\ travels[frame_num - 1] = 0
    /\ StateOf(player_states, player_with_ball).action = "holding"
    /\ StateOf(player_states, player_with_ball).violation_committed
    /\ StateOf(player_states, player_with_ball).last_pos = _get_player_center(player_bbox)

(* C20: a double dribble is counted on a frame only if the dribble-start   *)
(* pattern holds on the last four ball centers, the holder's               *)
(* dribble_stopped is true and no violation was committed in the           *)
(* possession; the counter rises by exactly one, and at the end of that    *)
(* frame the holder has violation_committed = true and dribble_stopped =   *)
(* false.                                                                  *)
C20_DoubleDribbleEffect ==
    [][(FrameStep /\ DoubleDribbleCounted) =>
        /\ total_double_dribbles' = total_double_dribbles + 1
        /\ player_with_ball' # NoHolder
        /\ _is_starting_dribble(ball_pos_history')
        /\ HolderBefore.dribble_stopped
        /\ ~HolderBefore.violation_committed
        /\ HolderAfter.violation_committed
        /\ ~HolderAfter.dribble_stopped]_vars

(* C29: a double dribble is counted against a holder only if that holder   *)
(* entered holding at an earlier frame of the same uninterrupted           *)
(* possession, never on a dribble_stopped left by an earlier possession or *)
(* by losing the ball: the frame it is counted on is not the first frame   *)
(* of the possession (the frame before has the same holder) and the holder *)
(* comes into the frame with an action other than no_ball.                 *)
C29_DoubleDribbleNeedsHoldInPossession ==
    [][(FrameStep /\ DoubleDribbleCounted) =>
          /\ player_with_ball = player_with_ball'
          /\ HolderBefore.action # "no_ball"]_vars

ViolationsCounted == total_travels + total_double_dribbles

---------------------------------------------------------------------------
(* One possession seen by detectors of two frame rates: hold_history_len   *)
(* is int(0.35 * fps) (line 30), 2 frames at Fps and 3 at Fps + 3.         *)

HoldFpsValues == {Fps, Fps + 3}

HoldInit ==
    /\ pc = "run"
    /\ LoopIdle
    /\ player_states = <<>>
    /\ fps \in HoldFpsValues
    /\ total_travels = 0
    /\ total_double_dribbles = 0
    /\ player_with_ball = NoHolder
    /\ player_bbox = <<>>
    /\ \E num_frames \in 0..MaxHoldFrames :
          /\ travels = Zeros(num_frames)
          /\ double_dribbles = Zeros(num_frames)
    /\ RerunIdle
    /\ CollectorIdle
    /\ InputIdle
    /\ PassIdle
    /\ ShotIdle
    /\ HoopIdle

HoldNext == PossessionFrame \/ PossessionReturn

SpecHold == HoldInit /\ [][HoldNext]_vars

(* The window is full of present centers and every two of them are closer  *)
(* than hold_stationary_threshold.                                         *)
PairwiseStationary(history) ==
    /\ Len(history) >= hold_history_len
    /\ LET window == LastN(history, hold_history_len)
       IN  /\ \A i \in 1..Len(window) : window[i] # None
           /\ \A i \in 1..Len(window), j \in 1..Len(window) :
                 Dist2(window[i], window[j]) < Sq(2 * hold_stationary_threshold)

(* C21: a frame leaves its holder in holding (lines 93-97) only if the     *)
(* last hold_history_len ball centers are all present and pairwise closer  *)
(* than hold_stationary_threshold.                                         *)
C21_HoldingNeedsPairwiseStill ==
    (/\ frame_num >= 1
     /\ player_with_ball # NoHolder
     /\ player_bbox # None
     /\ StateOf(player_states, player_with_ball).action = "holding")
    => PairwiseStationary(ball_pos_history)

---------------------------------------------------------------------------
(* EventCollector *)

(* Line 22: frame_num / self.fps, kept as the exact quotient <<n, d>>. *)
_frame_to_timestamp(frame) == <<frame, Fps>>

TsLess(a, b) == a[1] * b[2] < b[1] * a[2]
TsLeq(a, b) == a[1] * b[2] <= b[1] * a[2]

TravelEvent(frame) ==
    [type |-> "travel", timestamp |-> _frame_to_timestamp(frame), frame |-> frame,
     description |-> <<"Travel violation">>]

DoubleDribbleEvent(frame) ==
    [type |-> "double_dribble", timestamp |-> _frame_to_timestamp(frame),
     frame |-> frame, description |-> <<"Double dribble violation">>]

PassEvent(frame, pass_team) ==
    [type |-> "pass", timestamp |-> _frame_to_timestamp(frame), frame |-> frame,
     team |-> pass_team, description |-> <<"Team", pass_team, "pass">>]

InterceptionEvent(frame, interception_team) ==
    [type |-> "interception", timestamp |-> _frame_to_timestamp(frame),
     frame |-> frame, team |-> interception_team,
     description |-> <<"Team", interception_team, "interception">>]

ShotEvent(frame, player_id) ==
    [type |-> "shot", timestamp |-> _frame_to_timestamp(frame), frame |-> frame,
     player_id |-> player_id, description |-> <<"Shot by player", player_id>>]

Min(a, b) == IF a < b THEN a ELSE b

IsNewViolation_AnyCount(count, prev) == count > 0

IsNewViolation_Changed(count, prev) == count # prev

(* Lines 37 and 47: a count above the last count an event was emitted for. *)
IsNewViolation(count, prev) == count > prev

(* Lines 35-54: the loop over zip(travels, double_dribbles), from list      *)
(* index i on, with the loop's prev_travels and prev_double_dribbles;      *)
(* zip stops at the end of the shorter list.                               *)
RECURSIVE CollectViolationsLoop(_, _, _, _, _)
CollectViolationsLoop(tr, dd, i, prev_travels, prev_double_dribbles) ==
    IF i >= Min(Len(tr), Len(dd)) THEN <<>>
    ELSE LET travel_count == tr[i + 1]
             double_dribble_count == dd[i + 1]
             new_travel == IsNewViolation(travel_count, prev_travels)
             new_dd == IsNewViolation(double_dribble_count, prev_double_dribbles)
         IN  (IF new_travel THEN <<TravelEvent(i)>> ELSE <<>>)
             \o (IF new_dd THEN <<DoubleDribbleEvent(i)>> ELSE <<>>)
             \o CollectViolationsLoop(tr, dd, i + 1,
                    IF new_travel THEN travel_count ELSE prev_travels,
                    IF new_dd THEN double_dribble_count ELSE prev_double_dribbles)

(* Lines 32-54: what collect_violations appends to self.events. *)
ViolationEvents(tr, dd) == CollectViolationsLoop(tr, dd, 0, 0, 0)

FlaggedFrames_All(flags) == [i \in 1..Len(flags) |-> i - 1]

(* enumerate(flags) filtered by value != -1 (lines 63-64, 80-81, 97-98):   *)
(* the frame numbers that yield an event, in order.                        *)
FlaggedFrames(flags) ==
    SelectSeq([i \in 1..Len(flags) |-> i - 1], LAMBDA f : flags[f + 1] # 0 - 1)

(* Lines 63-71: what collect_passes appends. *)
PassEvents(pass_flags) ==
    LET fr == FlaggedFrames(pass_flags)
    IN  [k \in 1..Len(fr) |-> PassEvent(fr[k], pass_flags[fr[k] + 1])]

(* Lines 80-88: what collect_interceptions appends. *)
InterceptionEvents(interception_flags) ==
    LET fr == FlaggedFrames(interception_flags)
    IN  [k \in 1..Len(fr) |-> InterceptionEvent(fr[k], interception_flags[fr[k] + 1])]

(* Lines 97-105: what collect_shots appends. *)
ShotEvents(shot_player_ids) ==
    LET fr == FlaggedFrames(shot_player_ids)
    IN  [k \in 1..Len(fr) |-> ShotEvent(fr[k], shot_player_ids[fr[k] + 1])]

(* sorted(list, key = timestamp) is a stable sort: an element goes behind  *)
(* every element already placed whose key is not greater.                  *)
RECURSIVE InsertByTimestamp_Unstable(_, _)
InsertByTimestamp_Unstable(sorted, e) ==
    IF sorted = <<>> THEN <<e>>
    ELSE IF TsLess(sorted[1].timestamp, e.timestamp)
         THEN <<sorted[1]>> \o InsertByTimestamp_Unstable(Tail(sorted), e)
         ELSE <<e>> \o sorted

RECURSIVE InsertByTimestamp(_, _)
InsertByTimestamp(sorted, e) ==
    IF sorted = <<>> THEN <<e>>
    ELSE IF TsLeq(sorted[1].timestamp, e.timestamp)
         THEN <<sorted[1]>> \o InsertByTimestamp(Tail(sorted), e)
         ELSE <<e>> \o sorted

RECURSIVE SortedByTimestamp(_)
SortedByTimestamp(list) ==
    IF list = <<>> THEN <<>>
    ELSE InsertByTimestamp(SortedByTimestamp(SubSeq(list, 1, Len(list) - 1)),
                           list[Len(list)])

get_events_Unsorted == events

(* Line 114. *)
get_events == SortedByTimestamp(events)

(* The arrays the collector can be handed. *)
RECURSIVE SeqsUpTo(_, _)
SeqsUpTo(S, n) ==
    IF n = 0 THEN {<<>>}
    ELSE LET shorter == SeqsUpTo(S, n - 1)
         IN  shorter \cup {Append(q, x) : q \in {r \in shorter : Len(r) = n - 1}, x \in S}

CountValues == 0..2
TeamFlags == {0 - 1, 1, 2}
PlayerFlags == {0 - 1} \cup Tracks

CountArrays == SeqsUpTo(CountValues, MaxLen)
TeamFlagArrays == SeqsUpTo(TeamFlags, MaxLen)
PlayerFlagArrays == SeqsUpTo(PlayerFlags, MaxLen)

(* A collect_* call appends its events to self.events; the collector holds *)
(* at most MaxEvents events in the model.                                  *)
Collect(new_events) ==
    /\ Len(events) + Len(new_events) <= MaxEvents
    /\ events' = events \o new_events
    /\ raised' = FALSE
    /\ UNCHANGED <<pc, loopVars, violationVars, countVars, rerunVars, inputVars,
                   passVars, shotVars, hoopVars>>

CollectViolations ==
    /\ pc = "collect"
    /\ \E n \in 0..MaxLen :
          \E tr \in [1..n -> CountValues], dd \in [1..n -> CountValues] :
              Collect(ViolationEvents(tr, dd))

CollectPasses ==
    /\ pc = "collect"
    /\ \E pass_flags \in TeamFlagArrays : Collect(PassEvents(pass_flags))

CollectInterceptions ==
    /\ pc = "collect"
    /\ \E interception_flags \in TeamFlagArrays :
          Collect(InterceptionEvents(interception_flags))

CollectShots ==
    /\ pc = "collect"
    /\ \E shot_player_ids \in PlayerFlagArrays : Collect(ShotEvents(shot_player_ids))

(* EventCollector(fps), lines 16-18. *)
CollectorInit ==
    /\ pc = "collect"
    /\ events = <<>>
    /\ raised = FALSE
    /\ LoopIdle
    /\ ViolationIdle
    /\ CountIdle
    /\ RerunIdle
    /\ InputIdle
    /\ PassIdle
    /\ ShotIdle
    /\ HoopIdle

CollectorNext ==
    \/ CollectViolations
    \/ CollectPasses
    \/ CollectInterceptions
    \/ CollectShots

SpecCollector == CollectorInit /\ [][CollectorNext]_vars

(* C2: get_events returns the collected events in non-decreasing timestamp *)
(* order, whatever collect_* calls were made in whatever order.            *)
C2_GetEventsSorted ==
    \A i \in 1..Len(get_events) : \A j \in i..Len(get_events) :
        TsLeq(get_events[i].timestamp, get_events[j].timestamp)

(* Witness of C2: self.events itself is out of timestamp order (a later    *)
(* call emitted an earlier frame), and get_events returns all of them.     *)
C2_Witness ==
    /\ Len(get_events) = Len(events)
    /\ \E i \in 1..Len(events) : \E j \in i..Len(events) :
          TsLess(events[j].timestamp, events[i].timestamp)

(* The events of list whose timestamp equals t, in the order of list. *)
WithTimestamp(list, t) ==
    SelectSeq(list, LAMBDA e : TsLeq(e.timestamp, t) /\ TsLeq(t, e.timestamp))

(* C11: get_events is a stable sort: the events of one timestamp appear in *)
(* get_events in the order in which the collect_* calls appended them.     *)
C11_StableOrder ==
    \A k \in 1..Len(events) :
        WithTimestamp(get_events, events[k].timestamp)
            = WithTimestamp(events, events[k].timestamp)

(* Witness of C11: two events of different types and one timestamp, found  *)
(* in get_events in their order of insertion.                              *)
C11_Witness ==
    \E i \in 1..Len(events), j \in 1..Len(events) :
        /\ i < j
        /\ events[i].type # events[j].type
        /\ TsLeq(events[i].timestamp, events[j].timestamp)
        /\ TsLeq(events[j].timestamp, events[i].timestamp)
        /\ \E a \in 1..Len(get_events), b \in 1..Len(get_events) :
              a < b /\ get_events[a] = events[i] /\ get_events[b] = events[j]

---------------------------------------------------------------------------
(* collect_violations as a function of its two arguments: a fresh         *)
(* collector is handed the arrays travels and double_dribbles, of any     *)
(* lengths and contents, and the call runs to its end.                    *)

CollectViolationsCall ==
    /\ pc = "call"
    /\ pc' = "done"
    /\ events' = events \o ViolationEvents(travels, double_dribbles)
    /\ raised' = FALSE       \* no statement of lines 32-54 can raise
    /\ UNCHANGED <<loopVars, violationVars, countVars, rerunVars, inputVars,
                   passVars, shotVars, hoopVars>>

CollectViolationsInit ==
    /\ pc = "call"
    /\ events = <<>>
    /\ raised = FALSE
    /\ travels \in CountArrays
    /\ double_dribbles \in CountArrays
    /\ LoopIdle
    /\ ViolationIdle
    /\ RerunIdle
    /\ InputIdle
    /\ PassIdle
    /\ ShotIdle
    /\ HoopIdle

CollectViolationsNext == CollectViolationsCall

SpecCollectViolations == CollectViolationsInit /\ [][CollectViolationsNext]_vars

NonDecreasing(arr) == \A i \in 2..Len(arr) : arr[i] >= arr[i - 1]

(* The count of the frame before f, 0 before frame 0. *)
CountBefore(arr, f) == IF f = 0 THEN 0 ELSE arr[f]

EventsOf(type, f) == {k \in 1..Len(events) : events[k].type = type /\ events[k].frame = f}

(* C7: for non-decreasing cumulative arrays of one length, collect_violations *)
(* emits exactly one travel event at every frame where travels exceeds its *)
(* value of the frame before (0 before frame 0), at every such increment,  *)
(* and no travel event at any other frame; likewise double_dribble events  *)
(* for double_dribbles; and it emits nothing else.                         *)
C7_OneEventPerIncrement ==
    (/\ pc = "done"
     /\ Len(travels) = Len(double_dribbles)
     /\ NonDecreasing(travels)
     /\ NonDecreasing(double_dribbles))
    =>
    /\ \A f \in 0..(Len(travels) - 1) :
          /\ Cardinality(EventsOf("travel", f))
                = (IF travels[f + 1] > CountBefore(travels, f) THEN 1 ELSE 0)
          /\ Cardinality(EventsOf("double_dribble", f))
                = (IF double_dribbles[f + 1] > CountBefore(double_dribbles, f)
                   THEN 1 ELSE 0)
    /\ \A k \in 1..Len(events) :
          /\ events[k].type \in {"travel", "double_dribble"}
          /\ events[k].frame \in 0..(Len(travels) - 1)
          /\ events[k].timestamp = <<events[k].frame, Fps>>

(* Witness of C7: the travel count rises at frame 0 and again at frame 1,  *)
(* and each rise has its own event.                                        *)
C7_Witness ==
    /\ pc = "done"
    /\ Len(travels) = Len(double_dribbles)
    /\ NonDecreasing(travels)
    /\ NonDecreasing(double_dribbles)
    /\ Len(travels) >= 2
    /\ travels[1] > 0
    /\ travels[2] > travels[1]
    /\ Cardinality(EventsOf("travel", 0)) = 1
    /\ Cardinality(EventsOf("travel", 1)) = 1

(* C9: a call whose per-frame arrays differ in length is rejected with an  *)
(* error (here: collect_violations with len(travels) # len(double_dribbles)). *)
C9_LengthMismatchRejected ==
    (pc = "done" /\ Len(travels) # Len(double_dribbles)) => raised

---------------------------------------------------------------------------
(* collect_passes, collect_interceptions and collect_shots as functions of *)
(* their argument: a fresh collector is handed the three arrays, of any    *)
(* lengths and contents, in the order of main.py (lines 156-158).          *)

CollectPassesCall ==
    /\ pc = "collect_passes"
    /\ pc' = "collect_interceptions"
    /\ events' = events \o PassEvents(passes)
    /\ UNCHANGED <<raised, loopVars, violationVars, countVars, rerunVars, inputVars,
                   passVars, shotVars, hoopVars>>

CollectInterceptionsCall ==
    /\ pc = "collect_interceptions"
    /\ pc' = "collect_shots"
    /\ events' = events \o InterceptionEvents(interceptions)
    /\ UNCHANGED <<raised, loopVars, violationVars, countVars, rerunVars, inputVars,
                   passVars, shotVars, hoopVars>>

CollectShotsCall ==
    /\ pc = "collect_shots"
    /\ pc' = "done"
    /\ events' = events \o ShotEvents(shots)
    /\ UNCHANGED <<raised, loopVars, violationVars, countVars, rerunVars, inputVars,
                   passVars, shotVars, hoopVars>>

CollectFlagsInit ==
    /\ pc = "collect_passes"
    /\ events = <<>>
    /\ raised = FALSE
    /\ passes \in TeamFlagArrays
    /\ interceptions \in TeamFlagArrays
    /\ shots \in PlayerFlagArrays
    /\ hoop_bbox = <<>>
    /\ HoopIdle
    /\ LoopIdle
    /\ ViolationIdle
    /\ CountIdle
    /\ RerunIdle
    /\ InputIdle

CollectFlagsNext ==
    \/ CollectPassesCall
    \/ CollectInterceptionsCall
    \/ CollectShotsCall

SpecCollectFlags == CollectFlagsInit /\ [][CollectFlagsNext]_vars

(* The number of entries of flags that are not the sentinel -1. *)
FlagCount(flags) == Cardinality({i \in 1..Len(flags) : flags[i] # 0 - 1})

EventsOfType(type) == {k \in 1..Len(events) : events[k].type = type}

(* One event of the type at every index of flags that is not -1, none at   *)
(* the others, each with the index as frame and frame / fps as timestamp.  *)
OnePerFlag(type, flags) ==
    /\ \A f \in 0..(Len(flags) - 1) :
          Cardinality(EventsOf(type, f)) = (IF flags[f + 1] # 0 - 1 THEN 1 ELSE 0)
    /\ \A k \in EventsOfType(type) :
          /\ events[k].frame \in 0..(Len(flags) - 1)
          /\ events[k].timestamp = <<events[k].frame, Fps>>

(* C12: collect_passes, collect_interceptions and collect_shots each append *)
(* exactly one event for every index whose value is not -1 and none for    *)
(* the others; the event's frame is the index, its timestamp frame / fps,  *)
(* and it carries the value as team (pass, interception) or player_id      *)
(* (shot).                                                                 *)
C12_OneEventPerFlag ==
    /\ pc = "collect_passes" => events = <<>>
    /\ pc \in {"collect_interceptions", "collect_shots", "done"} =>
          /\ OnePerFlag("pass", passes)
          /\ \A k \in EventsOfType("pass") :
                events[k].team = passes[events[k].frame + 1]
    /\ pc = "collect_interceptions" => Len(events) = FlagCount(passes)
    /\ pc \in {"collect_shots", "done"} =>
          /\ OnePerFlag("interception", interceptions)
          /\ \A k \in EventsOfType("interception") :
                events[k].team = interceptions[events[k].frame + 1]
    /\ pc = "collect_shots" =>
          Len(events) = FlagCount(passes) + FlagCount(interceptions)
    /\ pc = "done" =>
          /\ OnePerFlag("shot", shots)
          /\ \A k \in EventsOfType("shot") :
                events[k].player_id = shots[events[k].frame + 1]
          /\ Len(events)
                = FlagCount(passes) + FlagCount(interceptions) + FlagCount(shots)

(* Witness of C12: the three calls are done; each array had an entry that  *)
(* is -1 and one that is not, and the collector holds events of the three  *)
(* types.                                                                  *)
C12_Witness ==
    /\ pc = "done"
    /\ \A flags \in {passes, interceptions, shots} :
          /\ \E i \in 1..Len(flags) : flags[i] = 0 - 1
          /\ \E i \in 1..Len(flags) : flags[i] # 0 - 1
    /\ EventsOfType("pass") # {}
    /\ EventsOfType("interception") # {}
    /\ EventsOfType("shot") # {}

---------------------------------------------------------------------------
(* EventCollector: summary and exports.  A Python dict is a function whose *)
(* DOMAIN is the set of its keys; the empty dict is <<>>.                  *)

EventTypes == {"travel", "double_dribble", "pass", "interception", "shot"}

(* dict.get(key, 0). *)
GetOrZero(dict, key) == IF key \in DOMAIN dict THEN dict[key] ELSE 0

Increment_Set(dict, key) == [k \in DOMAIN dict \cup {key} |-> IF k = key THEN 1 ELSE dict[k]]

(* Lines 138 and 146-148: the entry of key is created at 0 and raised by 1. *)
Increment(dict, key) ==
    [k \in DOMAIN dict \cup {key} |-> IF k = key THEN GetOrZero(dict, key) + 1 ELSE dict[k]]

(* Lines 135-138: the loop that fills event_counts. *)
RECURSIVE CountByType(_, _)
CountByType(list, event_counts) ==
    IF list = <<>> THEN event_counts
    ELSE CountByType(Tail(list), Increment(event_counts, list[1].type))

(* Line 144: f'team_{event["team"]}'. *)
TeamKey(team) == IF team = 1 THEN "team_1" ELSE "team_2"

(* Lines 141-148: the loop that fills team_stats; only the events that     *)
(* have a 'team' key are counted.                                          *)
RECURSIVE CountByTeam(_, _)
CountByTeam(list, team_stats) ==
    IF list = <<>> THEN team_stats
    ELSE LET event == list[1]
         IN  IF "team" \in DOMAIN event
             THEN LET team_key == TeamKey(event.team)
                  IN  CountByTeam(Tail(list),
                          [team_stats EXCEPT
                              ![team_key] = Increment(team_stats[team_key], event.type)])
             ELSE CountByTeam(Tail(list), team_stats)

(* Lines 128-154. *)
get_summary_stats ==
    [total_events |-> Len(events),
     event_counts |-> CountByType(events, <<>>),
     team_stats |-> CountByTeam(events, [team_1 |-> <<>>, team_2 |-> <<>>])]

RECURSIVE SumOver(_, _)
SumOver(dict, keys) ==
    IF keys = {} THEN 0
    ELSE LET k == CHOOSE x \in keys : TRUE
         IN  dict[k] + SumOver(dict, keys \ {k})

(* The collected events of the type that are tagged with the team. *)
TeamEventsOfType(team, type) ==
    {k \in EventsOfType(type) : "team" \in DOMAIN events[k] /\ events[k].team = team}

(* C13: after any sequence of collect_* calls, get_summary_stats returns   *)
(* total_events = the number of collected events; event_counts has the     *)
(* number of collected events of every type (a type without events has no  *)
(* entry), so the counts sum to total_events; team_stats[team_k] has the   *)
(* number of collected events of every type tagged with team k; travel,    *)
(* double_dribble and shot events are in no team's statistics.             *)
C13_SummaryCounts ==
    LET stats == get_summary_stats
    IN  /\ stats.total_events = Len(events)
        /\ DOMAIN stats.event_counts = {t \in EventTypes : EventsOfType(t) # {}}
        /\ \A t \in EventTypes :
              GetOrZero(stats.event_counts, t) = Cardinality(EventsOfType(t))
        /\ SumOver(stats.event_counts, DOMAIN stats.event_counts) = stats.total_events
        /\ DOMAIN stats.team_stats = {"team_1", "team_2"}
        /\ \A team \in Teams : \A t \in EventTypes :
              GetOrZero(stats.team_stats[TeamKey(team)], t)
                  = Cardinality(TeamEventsOfType(team, t))
        /\ \A team \in Teams :
              DOMAIN stats.team_stats[TeamKey(team)] \subseteq {"pass", "interception"}

(* Witness of C13: two collected events of one type and one team, counted  *)
(* as two.                                                                 *)
C13_Witness ==
    /\ \E t \in EventTypes : \E team \in Teams :
          /\ Cardinality(TeamEventsOfType(team, t)) >= 2
          /\ get_summary_stats.team_stats[TeamKey(team)][t] >= 2

---------------------------------------------------------------------------
(* export_to_json.  The JSON document is kept as a tree: an object is the  *)
(* set of its members <<key, value>>, an array the sequence of its items.  *)

JsonNumber(x) == [json |-> "number", value |-> x]
JsonString(x) == [json |-> "string", value |-> x]
JsonArray(items) == [json |-> "array", items |-> items]
JsonObject(members) == [json |-> "object", members |-> members]

(* json.dump of one event dict: type and description are strings, the      *)
(* other values numbers.                                                   *)
EncodeEvent(event) ==
    JsonObject({<<k, IF k \in {"type", "description"}
                     THEN JsonString(event[k])
                     ELSE JsonNumber(event[k])>> : k \in DOMAIN event})

(* json.dump of a dict of counts. *)
EncodeCounts(dict) == JsonObject({<<k, JsonNumber(dict[k])>> : k \in DOMAIN dict})

EncodeSummary(stats) ==
    JsonObject({<<"total_events", JsonNumber(stats.total_events)>>,
                <<"event_counts", EncodeCounts(stats.event_counts)>>,
                <<"team_stats",
                  JsonObject({<<team_key, EncodeCounts(stats.team_stats[team_key])>> :
                                 team_key \in DOMAIN stats.team_stats})>>})

EncodeMetadata(metadata) ==
    JsonObject({<<"fps", JsonNumber(metadata.fps)>>,
                <<"total_events", JsonNumber(metadata.total_events)>>,
                <<"video_duration", JsonNumber(metadata.video_duration)>>})

(* Line 174: json.dump(data, f, indent=2). *)
json_dump(data) ==
    JsonObject({<<"events",
                  JsonArray([i \in 1..Len(data.events) |-> EncodeEvent(data.events[i])])>>,
                <<"summary", EncodeSummary(data.summary)>>,
                <<"metadata", EncodeMetadata(data.metadata)>>})

(* json.load: an object becomes a dict of its keys, an array a list. *)
Keys(object) == {m[1] : m \in object.members}
Member(object, key) == (CHOOSE m \in object.members : m[1] = key)[2]
DecodeValues(object) == [k \in Keys(object) |-> Member(object, k).value]

DecodeSummary(object) ==
    [total_events |-> Member(object, "total_events").value,
     event_counts |-> DecodeValues(Member(object, "event_counts")),
     team_stats |->
         [team_key \in Keys(Member(object, "team_stats")) |->
             DecodeValues(Member(Member(object, "team_stats"), team_key))]]

json_load(document) ==
    [events |->
         [i \in 1..Len(Member(document, "events").items) |->
             DecodeValues(Member(document, "events").items[i])],
     summary |-> DecodeSummary(Member(document, "summary")),
     metadata |-> DecodeValues(Member(document, "metadata"))]

export_data_TypesAsTotal ==
    [events |-> get_events,
     summary |-> get_summary_stats,
     metadata |-> [fps |-> Fps,
                   total_events |-> Cardinality(DOMAIN get_summary_stats.event_counts),
                   video_duration |-> 0]]

(* Lines 163-171: the aggregate export_to_json writes; video_duration is   *)
(* the 0 of line 18.                                                       *)
export_data ==
    [events |-> get_events,
     summary |-> get_summary_stats,
     metadata |-> [fps |-> Fps, total_events |-> Len(events), video_duration |-> 0]]

(* Lines 173-174: the file export_to_json leaves. *)
export_to_json == json_dump(export_data)

(* C14: the aggregate read back from the file of export_to_json has as     *)
(* many events as were collected, metadata.total_events and                *)
(* summary.total_events both equal to that number, and the per-type counts *)
(* of get_summary_stats.                                                   *)
C14_ExportRoundTrip ==
    LET exported_data == json_load(export_to_json)
    IN  /\ Len(exported_data.events) = Len(events)
        /\ exported_data.metadata.total_events = Len(events)
        /\ exported_data.summary.total_events = Len(events)
        /\ DOMAIN exported_data.summary.event_counts
              = DOMAIN get_summary_stats.event_counts
        /\ \A t \in EventTypes :
              /\ GetOrZero(exported_data.summary.event_counts, t)
                    = GetOrZero(get_summary_stats.event_counts, t)
              /\ GetOrZero(exported_data.summary.event_counts, t)
                    = Cardinality(EventsOfType(t))

(* Witness of C14: two collected events of one type are exported and read  *)
(* back as two events and a count of two.                                  *)
C14_Witness ==
    /\ \E t \in EventTypes : Cardinality(EventsOfType(t)) = 2
    /\ Len(json_load(export_to_json).events) = 2
    /\ \E t \in EventTypes :
          GetOrZero(json_load(export_to_json).summary.event_counts, t) = 2

---------------------------------------------------------------------------
(* export_for_frontend *)

get_events_by_type_All(event_type) == events

(* Line 126. *)
get_events_by_type(event_type) ==
    SelectSeq(events, LAMBDA event : event.type = event_type)

(* Lines 183-198. *)
export_for_frontend ==
    [events |-> get_events,
     summary |-> get_summary_stats,
     eventsByType |->
         [travels |-> get_events_by_type("travel"),
          double_dribbles |-> get_events_by_type("double_dribble"),
          passes |-> get_events_by_type("pass"),
          interceptions |-> get_events_by_type("interception"),
          shots |-> get_events_by_type("shot")],
     metadata |-> [fps |-> Fps, total_events |-> Len(events), video_duration |-> 0]]

(* The type whose events a list of eventsByType is to hold. *)
TypeOfList ==
    [travels |-> "travel", double_dribbles |-> "double_dribble", passes |-> "pass",
     interceptions |-> "interception", shots |-> "shot"]

(* How often the event is in the list. *)
Occurrences(list, event) == Cardinality({k \in 1..Len(list) : list[k] = event})

(* C15: the five lists of eventsByType partition the collected events:     *)
(* each list holds exactly the events of its type, every collected event   *)
(* is in exactly one list, and the lengths of the lists sum to             *)
(* metadata.total_events, which is the length of the events list.          *)
C15_EventsByTypePartition ==
    LET frontend == export_for_frontend
        lists == frontend.eventsByType
    IN  /\ DOMAIN lists = DOMAIN TypeOfList
        /\ \A name \in DOMAIN lists :
              /\ \A k \in 1..Len(lists[name]) : lists[name][k].type = TypeOfList[name]
              /\ \A k \in EventsOfType(TypeOfList[name]) :
                    Occurrences(lists[name], events[k]) = Occurrences(events, events[k])
        /\ \A k \in 1..Len(events) :
              Cardinality({name \in DOMAIN lists :
                              Occurrences(lists[name], events[k]) > 0}) = 1
        /\ SumOver([name \in DOMAIN lists |-> Len(lists[name])], DOMAIN lists)
              = frontend.metadata.total_events
        /\ frontend.metadata.total_events = Len(frontend.events)

(* Witness of C15: events of two types were collected and are in two       *)
(* different lists.                                                        *)
C15_Witness ==
    /\ \E i \in 1..Len(events), j \in 1..Len(events) : events[i].type # events[j].type
    /\ Cardinality({name \in DOMAIN TypeOfList :
                       export_for_frontend.eventsByType[name] # <<>>}) >= 2

---------------------------------------------------------------------------
(* PassAndInterceptionDetector *)

Max(a, b) == IF a > b THEN a ELSE b

(* dict.get(track, -1) on one frame's team assignment (lines 36-37, 72-73). *)
TeamOf(assignment, track) ==
    IF track \in DOMAIN assignment THEN assignment[track] ELSE 0 - 1

PrevHolder_Immediate(ba, frame, prev_holder) == ba[frame]

(* Lines 29-30 and 61-62: the holder of frame - 1 when there is one, else  *)
(* the holder remembered from before.                                      *)
PrevHolder(ba, frame, prev_holder) ==
    IF ba[frame] # NoHolder THEN ba[frame] ELSE prev_holder

PreviousFrame_Immediate(ba, frame, previous_frame) == frame - 1

(* Lines 29-31 and 61-63: the frame that holder was seen at. *)
PreviousFrame(ba, frame, previous_frame) ==
    IF ba[frame] # NoHolder THEN frame - 1 ELSE previous_frame

(* Lines 35 and 71. *)
HolderChanged(prev_holder, current_holder) ==
    prev_holder # NoHolder /\ current_holder # NoHolder /\ prev_holder # current_holder

IsPass_AnyTeam(prev_team, current_team) == prev_team # 0 - 1

(* Line 39. *)
IsPass(prev_team, current_team) == prev_team = current_team /\ prev_team # 0 - 1

ShotOccurredRecently_Short(sa, frame) ==
    \E s \in Max(0, frame - shot_window + 1)..(frame - 1) : s < Len(sa) /\ sa[s + 1]

(* Line 67: any(shot_attempts[max(0, frame - shot_window):frame]). *)
ShotOccurredRecently(sa, frame) ==
    \E s \in Max(0, frame - shot_window)..(frame - 1) : s < Len(sa) /\ sa[s + 1]

IsInterception_UnknownPrev(prev_team, current_team, shot_occurred_recently) ==
    prev_team # current_team /\ current_team # 0 - 1 /\ ~shot_occurred_recently

(* Line 75. *)
IsInterception(prev_team, current_team, shot_occurred_recently) ==
    /\ prev_team # current_team
    /\ prev_team # 0 - 1
    /\ current_team # 0 - 1
    /\ ~shot_occurred_recently

(* Lines 28-40: the loop of detect_passes from frame on, with its locals   *)
(* prev_holder and previous_frame and the array written so far.            *)
RECURSIVE DetectPassesLoop(_, _, _, _, _, _)
DetectPassesLoop(ba, pa, frame, prev_holder, previous_frame, out) ==
    IF frame >= Len(ba) THEN out
    ELSE LET ph == PrevHolder(ba, frame, prev_holder)
             pf == PreviousFrame(ba, frame, previous_frame)
             current_holder == ba[frame + 1]
             written ==
                 IF HolderChanged(ph, current_holder)
                 THEN LET prev_team == TeamOf(pa[pf + 1], ph)
                          current_team == TeamOf(pa[frame + 1], current_holder)
                      IN  IF IsPass(prev_team, current_team)
                          THEN [out EXCEPT ![frame + 1] = prev_team]
                          ELSE out
                 ELSE out
         IN  DetectPassesLoop(ba, pa, frame + 1, ph, pf, written)

(* Lines 24-42. *)
detect_passes(ba, pa) ==
    DetectPassesLoop(ba, pa, 1, NoHolder, 0 - 1, [i \in 1..Len(ba) |-> 0 - 1])

(* Lines 60-76: the loop of detect_interceptions. *)
RECURSIVE DetectInterceptionsLoop(_, _, _, _, _, _, _)
DetectInterceptionsLoop(ba, pa, sa, frame, prev_holder, previous_frame, out) ==
    IF frame >= Len(ba) THEN out
    ELSE LET ph == PrevHolder(ba, frame, prev_holder)
             pf == PreviousFrame(ba, frame, previous_frame)
             shot_occurred_recently == ShotOccurredRecently(sa, frame)
             current_holder == ba[frame + 1]
             written ==
                 IF HolderChanged(ph, current_holder)
                 THEN LET prev_team == TeamOf(pa[pf + 1], ph)
                          current_team == TeamOf(pa[frame + 1], current_holder)
                      IN  IF IsInterception(prev_team, current_team,
                                            shot_occurred_recently)
                          THEN [out EXCEPT ![frame + 1] = current_team]
                          ELSE out
                 ELSE out
         IN  DetectInterceptionsLoop(ba, pa, sa, frame + 1, ph, pf, written)

(* Lines 56-78. *)
detect_interceptions(ba, pa, sa) ==
    DetectInterceptionsLoop(ba, pa, sa, 1, NoHolder, 0 - 1,
                            [i \in 1..Len(ba) |-> 0 - 1])

(* main.py line 138. *)
DetectPasses ==
    /\ pc = "detect_passes"
    /\ pc' = "detect_interceptions"
    /\ passes' = detect_passes(ball_aquisition, player_assignment)
    /\ UNCHANGED <<interceptions, loopVars, violationVars, countVars, rerunVars,
                   collectorVars, inputVars, shotVars, hoopVars>>

(* main.py line 140. *)
DetectInterceptions ==
    /\ pc = "detect_interceptions"
    /\ pc' = "done"
    /\ interceptions' =
           detect_interceptions(ball_aquisition, player_assignment, shot_attempts)
    /\ UNCHANGED <<passes, loopVars, violationVars, countVars, rerunVars,
                   collectorVars, inputVars, shotVars, hoopVars>>

(* What one frame can carry: no holder, or a holder whose team is 1, 2 or  *)
(* not assigned; and the shot flag.  The team entries of tracks other than *)
(* the frame's holder are never read (lines 36-37, 72-73) and are left out. *)
FrameInputs ==
    {[holder |-> h, teams |-> a, shot |-> b] :
        h \in {NoHolder}, a \in {<<>>}, b \in BOOLEAN}
    \cup UNION {{[holder |-> h, teams |-> a, shot |-> b] :
                    a \in {<<>>} \cup {h :> t : t \in Teams}, b \in BOOLEAN} :
                h \in Tracks}

(* Every video of up to MaxPassFrames frames. *)
ShortInputs ==
    \E n \in 0..MaxPassFrames : \E fr \in [1..n -> FrameInputs] :
        /\ ball_aquisition = [i \in 1..n |-> fr[i].holder]
        /\ player_assignment = [i \in 1..n |-> fr[i].teams]
        /\ shot_attempts = [i \in 1..n |-> fr[i].shot]

(* Longer videos with one possession change: track a holds the ball on     *)
(* frame 0, nobody in between, track b on the last frame; at most one shot *)
(* flag, on any frame.                                                     *)
ReboundInputs ==
    \E n \in 2..MaxReboundFrames, a \in Tracks, b \in Tracks :
        \E ta \in {<<>>} \cup {a :> t : t \in Teams},
           tb \in {<<>>} \cup {b :> t : t \in Teams},
           s \in 0..n :
            /\ ball_aquisition =
                   [i \in 1..n |-> IF i = 1 THEN a ELSE IF i = n THEN b ELSE NoHolder]
            /\ player_assignment =
                   [i \in 1..n |-> IF i = 1 THEN ta ELSE IF i = n THEN tb ELSE <<>>]
            /\ shot_attempts = [i \in 1..n |-> i = s]

PassInit ==
    /\ pc = "detect_passes"
    /\ ShortInputs \/ ReboundInputs
    /\ PassIdle
    /\ LoopIdle
    /\ ViolationIdle
    /\ CountIdle
    /\ RerunIdle
    /\ CollectorIdle
    /\ ShotIdle
    /\ HoopIdle

PassNext == DetectPasses \/ DetectInterceptions

SpecPass == PassInit /\ [][PassNext]_vars

(* The notions the claims about passes and interceptions are stated in,    *)
(* read off the input arrays; frames are numbered from 0.                  *)
NumFrames == Len(ball_aquisition)
Frames == 0..(NumFrames - 1)
HolderAt(f) == ball_aquisition[f + 1]
ValidBefore(f) == {g \in 0..(f - 1) : HolderAt(g) # NoHolder}
LastValidBefore(f) == CHOOSE g \in ValidBefore(f) : \A h \in ValidBefore(f) : h <= g
HolderTeamAt(f) == TeamOf(player_assignment[f + 1], HolderAt(f))
IsTransition(f) ==
    /\ HolderAt(f) # NoHolder
    /\ ValidBefore(f) # {}
    /\ HolderAt(LastValidBefore(f)) # HolderAt(f)
ShotWithinWindowBefore(f) ==
    \E s \in Frames : shot_attempts[s + 1] /\ s < f /\ f <= s + shot_window

(* C3: no frame f with interceptions[f] # -1 has a shot-attempt flag at a  *)
(* frame s with s < f <= s + shot_window.                                  *)
C3_NoInterceptionAfterShot ==
    pc = "done" =>
        \A f \in Frames : interceptions[f + 1] # 0 - 1 => ~ShotWithinWindowBefore(f)

(* Witness of C3: a change of possession between tracks of two known,      *)
(* different teams, shot_window frames after a flagged shot, carries no    *)
(* interception.                                                           *)
C3_Witness ==
    /\ pc = "done"
    /\ \E f \in Frames :
          /\ f >= shot_window
          /\ shot_attempts[f - shot_window + 1]
          /\ IsTransition(f)
          /\ HolderTeamAt(f) # 0 - 1
          /\ HolderTeamAt(LastValidBefore(f)) # 0 - 1
          /\ HolderTeamAt(f) # HolderTeamAt(LastValidBefore(f))
          /\ interceptions[f + 1] = 0 - 1

(* C4: wherever passes[f] = t # -1, the holder at f and the most recent    *)
(* valid holder before f are two distinct tracks and both have team t, the *)
(* earlier one at its last holding frame, the new one at f.                *)
C4_PassTeams ==
    pc \in {"detect_interceptions", "done"} =>
        \A f \in Frames :
            passes[f + 1] # 0 - 1 =>
                /\ IsTransition(f)
                /\ HolderTeamAt(f) = passes[f + 1]
                /\ HolderTeamAt(LastValidBefore(f)) = passes[f + 1]

(* Witness of C4: a pass across a gap of frames without a holder. *)
C4_Witness ==
    /\ pc = "done"
    /\ \E f \in Frames :
          /\ passes[f + 1] # 0 - 1
          /\ LastValidBefore(f) < f - 1

(* C5: wherever interceptions[f] = t # -1, t is the team of the new holder *)
(* at f, and the team of the previous valid holder is known and is not t.  *)
C5_InterceptionTeams ==
    pc = "done" =>
        \A f \in Frames :
            interceptions[f + 1] # 0 - 1 =>
                /\ IsTransition(f)
                /\ HolderTeamAt(f) = interceptions[f + 1]
                /\ HolderTeamAt(LastValidBefore(f)) # 0 - 1
                /\ HolderTeamAt(LastValidBefore(f)) # interceptions[f + 1]

(* Witness of C5: an interception, and in the same video a change of       *)
(* possession from a track without a team that carries none.               *)
C5_Witness ==
    /\ pc = "done"
    /\ \E f \in Frames : interceptions[f + 1] # 0 - 1
    /\ \E f \in Frames :
          /\ IsTransition(f)
          /\ HolderTeamAt(LastValidBefore(f)) = 0 - 1
          /\ HolderTeamAt(f) # 0 - 1
          /\ interceptions[f + 1] = 0 - 1

(* C8: a change of possession between two distinct valid holders with      *)
(* known teams is a pass of the shared team, and no interception, when the *)
(* teams are equal; it is an interception of the new holder's team, and no *)
(* pass, when they differ and no shot was flagged in the shot_window       *)
(* frames before.  A frame without a holder, and a frame whose holder is   *)
(* the most recent valid holder, carries neither; no frame carries both.   *)
C8_TransitionClassified ==
    pc = "done" =>
        \A f \in Frames :
            /\ (/\ IsTransition(f)
                /\ HolderTeamAt(f) # 0 - 1
                /\ HolderTeamAt(LastValidBefore(f)) # 0 - 1)
               => /\ HolderTeamAt(f) = HolderTeamAt(LastValidBefore(f))
                     => /\ passes[f + 1] = HolderTeamAt(f)
                        /\ interceptions[f + 1] = 0 - 1
                  /\ (/\ HolderTeamAt(f) # HolderTeamAt(LastValidBefore(f))
                      /\ ~ShotWithinWindowBefore(f))
                     => /\ interceptions[f + 1] = HolderTeamAt(f)
                        /\ passes[f + 1] = 0 - 1
            /\ (\/ HolderAt(f) = NoHolder
                \/ (ValidBefore(f) # {} /\ HolderAt(LastValidBefore(f)) = HolderAt(f)))
               => passes[f + 1] = 0 - 1 /\ interceptions[f + 1] = 0 - 1
            /\ ~(passes[f + 1] # 0 - 1 /\ interceptions[f + 1] # 0 - 1)

(* Witness of C8: one video with a pass at one frame, an interception at   *)
(* another, and a shot flag that does not precede the interception.        *)
C8_Witness ==
    /\ pc = "done"
    /\ \E f \in Frames, g \in Frames, s \in Frames :
          /\ passes[f + 1] # 0 - 1
          /\ interceptions[g + 1] # 0 - 1
          /\ shot_attempts[s + 1]

(* C25: a change of possession whose new holder first appears within       *)
(* shot_window frames after a flagged shot carries neither a pass nor an   *)
(* interception, whatever the teams of the two holders.                    *)
C25_ReboundSuppressed ==
    pc = "done" =>
        \A f \in Frames :
            (IsTransition(f) /\ ShotWithinWindowBefore(f))
                => passes[f + 1] = 0 - 1 /\ interceptions[f + 1] = 0 - 1

(* What the claim expects at a frame f that changes possession: the team   *)
(* of the earlier holder is read at its last holding frame, the team of    *)
(* the new holder at f.                                                    *)
ExpectedPass(f) ==
    IF /\ HolderTeamAt(f) = HolderTeamAt(LastValidBefore(f))
       /\ HolderTeamAt(f) # 0 - 1
    THEN HolderTeamAt(f)
    ELSE 0 - 1

ExpectedInterception(f) ==
    IF /\ HolderTeamAt(f) # HolderTeamAt(LastValidBefore(f))
       /\ HolderTeamAt(f) # 0 - 1
       /\ HolderTeamAt(LastValidBefore(f)) # 0 - 1
       /\ ~ShotWithinWindowBefore(f)
    THEN HolderTeamAt(f)
    ELSE 0 - 1

(* C26: a change of possession from track A, through any number of frames  *)
(* without a holder, to a different track B is classified once, at the     *)
(* first frame B holds the ball, from A's team at A's last holding frame   *)
(* and B's team at that frame; every other frame, the later frames of B    *)
(* and a return of the ball to A after the gap included, carries nothing.  *)
C26_GapTransitionOnce ==
    pc = "done" =>
        \A f \in Frames :
            IF IsTransition(f)
            THEN /\ passes[f + 1] = ExpectedPass(f)
                 /\ interceptions[f + 1] = ExpectedInterception(f)
            ELSE passes[f + 1] = 0 - 1 /\ interceptions[f + 1] = 0 - 1

(* Witness of C26: an interception at the first frame of a new holder      *)
(* after two or more frames without a holder.                              *)
C26_Witness ==
    /\ pc = "done"
    /\ \E f \in Frames :
          /\ IsTransition(f)
          /\ LastValidBefore(f) <= f - 3
          /\ interceptions[f + 1] = HolderTeamAt(f)
          /\ interceptions[f + 1] # 0 - 1

---------------------------------------------------------------------------
(* ShotDetector *)

(* The ball and hoop boxes a frame of the shot detector can carry: no      *)
(* ball, a ball low or high under the hoop; no hoop or the hoop.           *)
ShotBallBoxes == {<<>>, <<8, 38, 12, 42>>, <<8, 32, 12, 36>>}
HoopBoxes == {<<>>, <<5, 0, 15, 8>>}

(* Lines 35-36: the point p, a doubled center, lies strictly inside box. *)
PointInBox(p, box) ==
    /\ 2 * box[1] < p[1] /\ p[1] < 2 * box[3]
    /\ 2 * box[2] < p[2] /\ p[2] < 2 * box[4]

(* Lines 26-38. *)
_line_intersects_box(p1, p2, box) == PointInBox(p1, box) \/ PointInBox(p2, box)

PlayerWhoShot_Current(ba, frame) == ba[frame + 1]

(* Line 83: ball_aquisition[frame_num - 1]. *)
PlayerWhoShot(ba, frame) == ba[frame]

(* Lines 56-85 of one iteration: the value the iteration leaves in         *)
(* shots[frame]; history ends with the ball center of this frame and ba    *)
(* holds the holders of the frames up to this one.                         *)
ShotOfFrame(history, hoop, frame, ba) ==
    LET ball_pos == history[Len(history)]
    IN  IF ball_pos = None \/ hoop = None \/ frame < trajectory_frames
        THEN 0 - 1
        ELSE LET recent_ball_positions == NotNone(LastN(history, trajectory_frames))
             IN  IF Len(recent_ball_positions) < min_trajectory_points
                 THEN 0 - 1
                 ELSE LET p_start == recent_ball_positions[1]
                          p_end == recent_ball_positions[Len(recent_ball_positions)]
                          is_moving_up == p_end[2] < p_start[2]
                          direction_vector ==
                              <<p_end[1] - p_start[1], p_end[2] - p_start[2]>>
                          p_projected ==
                              <<p_end[1] + projection_factor * direction_vector[1],
                                p_end[2] + projection_factor * direction_vector[2]>>
                      IN  IF Dist2(p_end, p_start) < Sq(2 * min_direction_norm)
                          THEN 0 - 1
                          ELSE IF is_moving_up
                                  /\ _line_intersects_box(p_end, p_projected, hoop)
                               THEN PlayerWhoShot(ba, frame)
                               ELSE 0 - 1

(* The holder a frame can carry.  The shot detector reads ball_aquisition  *)
(* at frame_num - 1 only, and only when frame_num >= trajectory_frames; the *)
(* entries before index trajectory_frames - 1 are never read and are -1.   *)
ShotHolders(frame) ==
    IF frame < trajectory_frames - 1 THEN {NoHolder} ELSE Tracks \cup {NoHolder}

(* One iteration of the loop of detect_shots (lines 47-85) on the frame    *)
(* inputs bb (ball bbox), hb (hoop bbox) and holder.                       *)
DetectShotsFrame(bb, hb, holder) ==
    /\ pc = "run"
    /\ frame_num < Len(shots)
    /\ LET history == Append(ball_pos_history, _get_ball_center(bb))
           ba == Append(ball_aquisition, holder)
           shooter == ShotOfFrame(history, hb, frame_num, ba)
       IN  /\ ball_bbox' = bb
           /\ hoop_bbox' = hb
           /\ ball_pos_history' = history
           /\ ball_aquisition' = ba
           /\ shots' = IF shooter # 0 - 1
                       THEN [shots EXCEPT ![frame_num + 1] = shooter]
                       ELSE shots
    /\ frame_num' = frame_num + 1
    /\ UNCHANGED <<pc, player_assignment, shot_attempts, violationVars, countVars,
                   rerunVars, collectorVars, passVars, hoopVars>>

(* The three argument arrays have one length; the frame's entries are      *)
(* drawn here.                                                             *)
ShotFrame ==
    \E bb \in ShotBallBoxes, hb \in HoopBoxes, holder \in ShotHolders(frame_num) :
        DetectShotsFrame(bb, hb, holder)

(* Lines 87-88. *)
ShotReturn ==
    /\ pc = "run"
    /\ frame_num = Len(shots)
    /\ pc' = "done"
    /\ UNCHANGED <<loopVars, violationVars, countVars, rerunVars, collectorVars,
                   inputVars, passVars, shotVars, hoopVars>>

(* ShotDetector() with its defaults (lines 17-18) entering detect_shots    *)
(* (lines 44-45) on a video of num_frames frames.                          *)
ShotInit ==
    /\ pc = "run"
    /\ LoopIdle
    /\ \E num_frames \in 0..MaxShotFrames : shots = [i \in 1..num_frames |-> 0 - 1]
    /\ hoop_bbox = <<>>
    /\ HoopIdle
    /\ InputIdle
    /\ ViolationIdle
    /\ CountIdle
    /\ RerunIdle
    /\ CollectorIdle
    /\ PassIdle

ShotNext == ShotFrame \/ ShotReturn

SpecShot == ShotInit /\ [][ShotNext]_vars

(* C6: wherever detect_shots leaves shots[f] # -1, f >= 1 and shots[f] is  *)
(* ball_aquisition[f - 1], the holder of the frame before, which is a      *)
(* track and not -1.                                                       *)
C6_ShooterIsPreviousHolder ==
    \A f \in 0..(frame_num - 1) :
        shots[f + 1] # 0 - 1 =>
            /\ f >= 1
            /\ shots[f + 1] = ball_aquisition[f]
            /\ ball_aquisition[f] # NoHolder

(* Witness of C6: a shot at a frame whose own holder is not the shooter.   *)
C6_Witness ==
    /\ pc = "done"
    /\ \E f \in 0..(frame_num - 1) :
          /\ shots[f + 1] # 0 - 1
          /\ ball_aquisition[f + 1] # shots[f + 1]

---------------------------------------------------------------------------
(* detect_shots on a rising ball: the ball, when detected, is one unit     *)
(* higher on every frame, under a hoop that the projection of the last     *)
(* frames reaches.                                                         *)

RisingBall(frame) == <<8, 26 - frame, 12, 30 - frame>>

RiseHolders == {1, NoHolder}

RiseFrame ==
    \E bb \in {<<>>, RisingBall(frame_num)}, hb \in HoopBoxes, holder \in RiseHolders :
        DetectShotsFrame(bb, hb, holder)

RiseInit ==
    /\ pc = "run"
    /\ LoopIdle
    /\ \E num_frames \in 0..MaxRiseFrames : shots = [i \in 1..num_frames |-> 0 - 1]
    /\ hoop_bbox = <<>>
    /\ HoopIdle
    /\ InputIdle
    /\ ViolationIdle
    /\ CountIdle
    /\ RerunIdle
    /\ CollectorIdle
    /\ PassIdle

RiseNext == RiseFrame \/ ShotReturn

SpecRise == RiseInit /\ [][RiseNext]_vars

(* The conditions on the frame just processed, frame_num - 1: the ball and *)
(* the hoop are present, the window holds min_trajectory_points centers,   *)
(* the newest is higher than the oldest and at least min_direction_norm    *)
(* away, the newest or the projected point is inside the hoop, and the     *)
(* frame before had a holder.                                              *)
ShotConditionsMet ==
    LET window == IF Len(ball_pos_history) <= trajectory_frames
                  THEN ball_pos_history
                  ELSE LastN(ball_pos_history, trajectory_frames)
        present == NotNone(window)
        newest == present[Len(present)]
        oldest == present[1]
        projected == <<newest[1] + projection_factor * (newest[1] - oldest[1]),
                       newest[2] + projection_factor * (newest[2] - oldest[2])>>
    IN  /\ ball_pos_history[frame_num] # None
        /\ hoop_bbox # None
        /\ Len(present) >= min_trajectory_points
        /\ newest[2] < oldest[2]
        /\ Dist2(newest, oldest) >= Sq(2 * min_direction_norm)
        /\ PointInBox(newest, hoop_bbox) \/ PointInBox(projected, hoop_bbox)
        /\ ball_aquisition[frame_num - 1] # NoHolder

(* C23: detect_shots flags a frame with the holder of the frame before     *)
(* exactly when the ball and hoop are present, the last trajectory_frames  *)
(* entries hold min_trajectory_points centers, the newest is higher than   *)
(* the oldest and at least 2 away, the newest or projected point is inside *)
(* the hoop and the frame before had a holder; otherwise the entry is -1.  *)
C23_ShotExactlyWhen ==
    frame_num >= 1 =>
        shots[frame_num] = IF ShotConditionsMet
                           THEN ball_aquisition[frame_num - 1]
                           ELSE 0 - 1

(* The last trajectory_frames centers are all present and each is higher   *)
(* than the one before.                                                    *)
StrictlyRising(history) ==
    /\ Len(history) >= trajectory_frames
    /\ LET window == LastN(history, trajectory_frames)
       IN  /\ \A i \in 1..trajectory_frames : window[i] # None
           /\ \A i \in 1..(trajectory_frames - 1) : window[i + 1][2] < window[i][2]

(* C24: every frame whose history, the frame included, holds               *)
(* trajectory_frames samples is eligible: when those samples rise          *)
(* strictly, the hoop is on the projected path and the frame before had a  *)
(* holder, the frame is flagged with that holder.                          *)
C24_EligibleWithFiveSamples ==
    (/\ StrictlyRising(ball_pos_history)
     /\ hoop_bbox # None
     /\ ShotConditionsMet)
    => shots[frame_num] = ball_aquisition[frame_num - 1]

(* C30: detect_shots never flags two consecutive frames.                   *)
C30_NoConsecutiveShots ==
    \A f \in 1..(frame_num - 1) : ~(shots[f] # 0 - 1 /\ shots[f + 1] # 0 - 1)

---------------------------------------------------------------------------
(* HoopDetector *)

HoopBox == <<5, 0, 15, 8>>

Strategies == {"yolo", "shape", "template", "color"}

(* What the four strategies return on one frame: a bbox or None each. *)
HoopFrames == [Strategies -> {None, HoopBox}]

ZeroStats == [k \in Strategies \cup {"none"} |-> 0]

(* Lines 210-232: the strategy whose result ends the iteration; YOLO is    *)
(* tried only when the model was loaded (line 210).                        *)
MatchedStrategy(frame, has_model) ==
    IF has_model /\ frame["yolo"] # None THEN "yolo"
    ELSE IF frame["shape"] # None THEN "shape"
    ELSE IF frame["template"] # None THEN "template"
    ELSE IF frame["color"] # None THEN "color"
    ELSE "none"

(* The detection of the frame: the result of the matched strategy. *)
HoopDetection(frame, has_model) ==
    IF MatchedStrategy(frame, has_model) = "none" THEN None
    ELSE frame[MatchedStrategy(frame, has_model)]

(* One iteration of the loop of detect_frames (lines 202-237): a strategy  *)
(* that matches counts the frame and leaves the iteration with continue    *)
(* (lines 214, 220, 226, 232); line 237 is reached when none matched.      *)
HoopFrame ==
    /\ pc = "run"
    /\ frame_num < Len(frames)
    /\ LET frame == frames[frame_num + 1]
           matched == MatchedStrategy(frame, model)
       IN  /\ detection_stats' = [detection_stats EXCEPT ![matched] = @ + 1]
           /\ hoop_positions' = IF matched = "none"
                                THEN Append(hoop_positions, frame["color"])
                                ELSE hoop_positions
    /\ frame_num' = frame_num + 1
    /\ UNCHANGED <<pc, ball_pos_history, ball_bbox, frames, model, violationVars,
                   countVars, rerunVars, collectorVars, inputVars, passVars, shotVars>>

(* Line 247. *)
HoopReturn ==
    /\ pc = "run"
    /\ frame_num = Len(frames)
    /\ pc' = "done"
    /\ UNCHANGED <<loopVars, violationVars, countVars, rerunVars, collectorVars,
                   inputVars, passVars, shotVars, hoopVars>>

(* A HoopDetector whose model was loaded or not (lines 18-24) entering     *)
(* detect_frames (lines 193-200) on up to MaxHoopFrames frames.            *)
HoopInit ==
    /\ pc = "run"
    /\ LoopIdle
    /\ \E n \in 0..MaxHoopFrames : frames \in [1..n -> HoopFrames]
    /\ model \in BOOLEAN
    /\ hoop_positions = <<>>
    /\ detection_stats = ZeroStats
    /\ ViolationIdle
    /\ CountIdle
    /\ RerunIdle
    /\ CollectorIdle
    /\ InputIdle
    /\ PassIdle
    /\ ShotIdle

HoopNext == HoopFrame \/ HoopReturn

SpecHoop == HoopInit /\ [][HoopNext]_vars

(* C27: detect_frames returns one entry per input frame, in frame order:   *)
(* entry f is the bbox detected on frame f, or None when no strategy       *)
(* matched, whichever strategy that was.                                   *)
C27_OneEntryPerFrame ==
    pc = "done" =>
        /\ Len(hoop_positions) = Len(frames)
        /\ \A f \in 1..Len(frames) :
              hoop_positions[f] = HoopDetection(frames[f], model)

---------------------------------------------------------------------------
(* The pipeline of main.py, lines 146-155: detect_violations on a fresh    *)
(* ViolationDetector, then collect_violations on the arrays it returned.   *)

PipelineCollect ==
    /\ pc = "done"
    /\ pc' = "collected"
    /\ events' = events \o ViolationEvents(travels, double_dribbles)
    /\ raised' = FALSE
    /\ UNCHANGED <<loopVars, violationVars, countVars, rerunVars, inputVars,
                   passVars, shotVars, hoopVars>>

PipelineNext == ViolationFrame \/ ViolationReturn \/ PipelineCollect

SpecPipeline == ViolationInit /\ [][PipelineNext]_vars

(* The violations the detector confirms on the frame of a step. *)
ConfirmedOnFrame ==
    (IF TravelCounted THEN <<TravelEvent(frame_num)>> ELSE <<>>)
        \o (IF DoubleDribbleCounted THEN <<DoubleDribbleEvent(frame_num)>> ELSE <<>>)

(* C28: collect_violations applied to the arrays of detect_violations       *)
(* emits a travel event at frame f exactly when the detector confirmed a   *)
(* travel at f, and likewise for double dribbles: every frame adds to the  *)
(* events of the arrays the violations confirmed on it and nothing else,   *)
(* frames whose holder has no bbox included, so the log holds as many      *)
(* travel and double_dribble events as the detector counted.               *)
C28_EventsMatchConfirmed ==
    [][/\ FrameStep =>
             ViolationEvents(travels', double_dribbles')
                 = ViolationEvents(travels, double_dribbles) \o ConfirmedOnFrame
       /\ (pc = "done" /\ pc' = "collected") =>
             /\ events' = ViolationEvents(travels, double_dribbles)
             /\ Len(SelectSeq(events', LAMBDA ev : ev.type = "travel"))
                    = total_travels
             /\ Len(SelectSeq(events', LAMBDA ev : ev.type = "double_dribble"))
                    = total_double_dribbles]_vars

(* Witness of C28: a travel was confirmed, a later frame of the run was    *)
(* skipped and left 0 in the array, and the log holds the one travel.      *)
C28_Witness ==
    /\ pc = "collected"
    /\ total_travels = 1
    /\ \E f \in 1..(Len(travels) - 1) : travels[f] = 1 /\ travels[f + 1] = 0
    /\ Cardinality(EventsOfType("travel")) = 1

====
